---------------------------- MODULE Spec2Model ----------------------------
(***************************************************************************)
(* Role-gating authentication middleware of src/utils/extractor.rs:        *)
(* RequireAuth / AuthMiddleware::call and the Authenticated extractor.     *)
(*                                                                         *)
(* Strings are sequences of symbols.  A header value is a sequence of      *)
(* characters followed by the symbols of a token; a token is the sequence  *)
(* <<subject, seal>>.  Optional values are sequences of length 0 or 1.     *)
(***************************************************************************)
EXTENDS Integers, Sequences, FiniteSets, TLC

\* ------------------------------------------------------------------ bounds
\* Number of requests a behaviour holds (all may be in flight together).
NumReqs == 2
\* Number of times a handler may call the identity accessor on one request.
MaxExtract == 1

Reqs == 1..NumReqs

\* ------------------------------------------------------------- option type
None == <<>>
Some(x) == <<x>>
IsSome(o) == Len(o) = 1
IsNone(o) == Len(o) = 0
Unwrap(o) == o[1]

\* --------------------------------------------------------------- the roles
Roles == {"Admin", "Editor", "Viewer"}

\* ------------------------------------------------- subjects and the store
\* Uuid values (128-bit identifiers) are abstracted to the numbers 1 and 2.

\* uuid::Uuid::parse_str: accepts the hyphenated lower-case form and other
\* spellings of the same identifier (here an upper-case spelling), rejects
\* anything else.  Result: Some(uuid) or None (the Err case).
parse_str(s) ==
    CASE s = "u1" -> Some(1)
      [] s = "U1" -> Some(1)
      [] s = "u2" -> Some(2)
      [] s = "U2" -> Some(2)
      [] OTHER -> None

\* Uuid::to_string: the canonical hyphenated lower-case spelling.
to_string(u) == IF u = 1 THEN "u1" ELSE "u2"

\* UserModel: the account record (only the fields the gate reads).
UserModel(id, role) == [id |-> id, role |-> role]

\* The identity store as the process finds it at start.
InitialDb == [k \in {"u1", "u2"} |->
                 IF k = "u1" THEN Some(UserModel("u1", "Admin"))
                             ELSE Some(UserModel("u2", "Viewer"))]

\* ---------------------------------------------------------------- tokens
\* As decode_token, with a message of its own for an expired token.
decode_token_leaky(tok) ==
    IF Len(tok) = 2 /\ tok[2] = "ok"
    THEN [ok |-> TRUE, sub |-> tok[1], message |-> ""]
    ELSE IF Len(tok) = 2 /\ tok[2] = "exp"
    THEN [ok |-> FALSE, sub |-> "", message |-> "TokenExpired"]
    ELSE [ok |-> FALSE, sub |-> "", message |-> "InvalidToken"]

\* token::decode_token(token, secret): Ok(subject) or Err(message).
\* A token is well-formed when it has exactly the two parts <<subject, seal>>;
\* the seal is "ok" (signed with the secret, not expired), "bad" (signature
\* does not verify) or "exp" (expired).  Result: [ok, sub, message].
decode_token(tok) ==
    IF Len(tok) = 2 /\ tok[2] = "ok"
    THEN [ok |-> TRUE, sub |-> tok[1], message |-> ""]
    ELSE [ok |-> FALSE, sub |-> "", message |-> "InvalidToken"]

Tokens == { <<"u1", "ok">>, <<"U2", "ok">>, <<"x", "ok">>,
            <<"u1", "bad">>, <<"U2", "exp">> }

\* -------------------------------------------------------------- responses
\* status 0: the task panicked, no HTTP response is written.
Response(status, message) == [status |-> status, message |-> message]
Panicked == Response(0, "panic")


\* ------------------------------------------------------ credential carriers
\* The 7-character scheme prefix "Bearer " that split_at(7) cuts off.
PrefixLen == 7
Bearer == <<"B", "e", "a", "r", "e", "r", " ">>

\* HeaderValue::to_str succeeds only on visible ASCII; "0xFF" stands for an
\* opaque byte.
to_str_ok(h) == \A i \in 1..Len(h) : h[i] # "0xFF"

\* str::split_at(mid) panics when mid is past the end of the string.
split_at_ok(s, mid) == mid <= Len(s)
\* .1 of split_at(mid): everything after the first mid characters.
split_at_1(s, mid) == SubSeq(s, mid + 1, Len(s))

\* Values the `token` cookie may carry, when present.
CookieValues == Tokens \cup { <<>>, <<"u1">> }
CoreCookies == { <<"u1", "ok">>, <<"u1", "bad">> }

\* Values the Authorization header may carry, when present.
HeaderValues ==
    { Bearer \o t : t \in Tokens }
      \cup { <<"B", "e", "a", "r", "e", "r">>,            \* 6 characters
             Bearer,                                      \* 7 characters, empty token
             <<"T", "o", "k", "e", "n", " ", "u1", "ok">>, \* 6-character scheme
             Bearer \o <<"0xFF", "ok">> }                 \* opaque byte

CoreHeaders == { Bearer \o <<"U2", "ok">> }

\* As ExtractToken, with an absent header read as an empty credential.
ExtractToken_default(cookie, header) ==
    IF IsSome(cookie) THEN [panic |-> FALSE, token |-> Some(Unwrap(cookie))]
    ELSE IF IsNone(header) THEN [panic |-> FALSE, token |-> Some(<<>>)]
    ELSE IF ~to_str_ok(Unwrap(header)) THEN [panic |-> TRUE, token |-> None]
    ELSE IF ~split_at_ok(Unwrap(header), PrefixLen) THEN [panic |-> TRUE, token |-> None]
    ELSE [panic |-> FALSE, token |-> Some(split_at_1(Unwrap(header), PrefixLen))]

\* As ExtractToken, with the header tried again when the cookie does not
\* verify.
ExtractToken_retry(cookie, header) ==
    IF IsSome(cookie) /\ (decode_token(Unwrap(cookie)).ok \/ IsNone(header))
    THEN [panic |-> FALSE, token |-> Some(Unwrap(cookie))]
    ELSE IF IsNone(header) THEN [panic |-> FALSE, token |-> None]
    ELSE IF ~to_str_ok(Unwrap(header)) THEN [panic |-> TRUE, token |-> None]
    ELSE IF ~split_at_ok(Unwrap(header), PrefixLen) THEN [panic |-> TRUE, token |-> None]
    ELSE [panic |-> FALSE, token |-> Some(split_at_1(Unwrap(header), PrefixLen))]

\* Lines 112-119: cookie first, header as the fallback (or_else is lazy: the
\* header is read only when the cookie is absent).  Result: whether the
\* expression panicked, and the Option<String> it produced.
ExtractToken(cookie, header) ==
    IF IsSome(cookie) THEN [panic |-> FALSE, token |-> Some(Unwrap(cookie))]
    ELSE IF IsNone(header) THEN [panic |-> FALSE, token |-> None]
    ELSE IF ~to_str_ok(Unwrap(header)) THEN [panic |-> TRUE, token |-> None]
    ELSE IF ~split_at_ok(Unwrap(header), PrefixLen) THEN [panic |-> TRUE, token |-> None]
    ELSE [panic |-> FALSE, token |-> Some(split_at_1(Unwrap(header), PrefixLen))]

\* ------------------------------------------------------------------ routes
\* RequireAuth::allowed_roles per route group (a Vec, fixed at startup).
\* Route 3 is registered without the middleware.
Routes == {1, 2, 3}
Gated(route) == route \in {1, 2}
allowed_roles(route) ==
    IF route = 1 THEN <<"Editor", "Viewer">> ELSE <<"Viewer", "Editor">>

\* A scan that stops at the first element.
contains_first(list, x) == Len(list) > 0 /\ list[1] = x

\* Vec::contains: linear scan with ==.
contains(list, x) == \E i \in 1..Len(list) : list[i] = x

\* -------------------------------------------------------------- the store
\* UserService::get_user(Some(id), None, None): Ok(Some(user)), Ok(None), or
\* Err when the database call itself fails.
get_user(store, id, fails) ==
    IF fails THEN [ok |-> FALSE, user |-> None]
    ELSE IF id \in DOMAIN store THEN [ok |-> TRUE, user |-> store[id]]
    ELSE [ok |-> TRUE, user |-> None]

\* ------------------------------------------------------------------ state
VARIABLES
    db,          \* identity store: canonical id -> Option<UserModel>
    pc,          \* per request: "idle", "awaiting", "handler", "done"
    req,         \* per request: [cookie, header, route] as received
    token,       \* per request: the Option<String> of lines 112-119
    user_id,     \* per request: the id string passed to get_user
    lookups,     \* per request: number of get_user calls issued
    result,      \* per request: what get_user returned, once it has
    extensions,  \* per request: Option<UserModel> in req.extensions()
    srvCalls,    \* per request: number of srv.call(req) invocations
    extracted,   \* per request: sequence of accessor results in the handler
    held,        \* per request: the Authenticated value the handler holds
    response     \* per request: Option<Response>

vars == <<db, pc, req, token, user_id, lookups, result, extensions, srvCalls,
          extracted, held, response>>

NoRequest == [cookie |-> None, header |-> None, route |-> 0]

Init ==
    /\ db = InitialDb
    /\ pc = [r \in Reqs |-> "idle"]
    /\ req = [r \in Reqs |-> NoRequest]
    /\ token = [r \in Reqs |-> None]
    /\ user_id = [r \in Reqs |-> None]
    /\ lookups = [r \in Reqs |-> 0]
    /\ result = [r \in Reqs |-> None]
    /\ extensions = [r \in Reqs |-> None]
    /\ srvCalls = [r \in Reqs |-> 0]
    /\ extracted = [r \in Reqs |-> <<>>]
    /\ held = [r \in Reqs |-> None]
    /\ response = [r \in Reqs |-> None]


\* --------------------------------------------------------------- accessor
\* As from_request, with a default record in place of the error.
from_request_default(ext) ==
    IF IsSome(ext) THEN [ok |-> TRUE, user |-> Unwrap(ext), err |-> Response(200, "")]
    ELSE [ok |-> TRUE, user |-> UserModel("", ""), err |-> Response(200, "")]

\* As from_request, with the record read again from the store.
from_request_live(ext) ==
    IF IsSome(ext) /\ IsSome(db[Unwrap(ext).id])
    THEN [ok |-> TRUE, user |-> Unwrap(db[Unwrap(ext).id]), err |-> Response(200, "")]
    ELSE [ok |-> FALSE, user |-> UserModel("", ""),
          err |-> Response(500, "Authentication Error")]

\* Authenticated::from_request: a clone of the UserModel in the request's
\* extensions, or a 500 when there is none.
from_request(ext) ==
    IF IsSome(ext) THEN [ok |-> TRUE, user |-> Unwrap(ext), err |-> Response(200, "")]
    ELSE [ok |-> FALSE, user |-> UserModel("", ""),
          err |-> Response(500, "Authentication Error")]

\* ----------------------------------------------------------- error mapping
ErrorUnauthorized(message) == Response(401, message)
ErrorForbidden(message) == Response(403, message)
ErrorInternalServerError(message) == Response(500, message)

\* What a handler itself may answer once it runs.
HandlerResponses == { Response(200, "handler ok"), Response(422, "handler error") }

\* ------------------------------------------------- AuthMiddleware::call
\* The steps of call() before the lookup is awaited end in one of: "panic",
\* "reject" (with the error response) or "lookup" (with the id string handed
\* to get_user).
Panic == [kind |-> "panic", response |-> Panicked, id |-> ""]
Reject(resp) == [kind |-> "reject", response |-> resp, id |-> ""]
Lookup(id) == [kind |-> "lookup", response |-> Panicked, id |-> id]

\* Lines 145-149: the subject is parsed as a Uuid (unwrap) and handed to
\* get_user in its canonical spelling.
OnSubject(sub) ==
    LET u == parse_str(sub) IN
    IF IsNone(u) THEN Panic ELSE Lookup(to_string(Unwrap(u)))

\* As OnToken, with the subject read before the verification's verdict.
OnToken_unverified(tok) ==
    LET d == decode_token(tok) IN
    IF Len(tok) = 2 THEN OnSubject(tok[1]) ELSE Reject(ErrorUnauthorized(d.message))

\* As OnToken, with the decode failure answered 403.
OnToken_forbidden(tok) ==
    LET d == decode_token(tok) IN
    IF ~d.ok THEN Reject(ErrorForbidden(d.message)) ELSE OnSubject(d.sub)

\* Lines 130-139: the token is decoded; a failure is a 401 with the decoder's
\* message.
OnToken(tok) ==
    LET d == decode_token(tok) IN
    IF ~d.ok THEN Reject(ErrorUnauthorized(d.message)) ELSE OnSubject(d.sub)

\* Lines 112-146: everything call() and the first poll of its future do
\* before the lookup is awaited.
BeforeLookup(cookie, header) ==
    LET ex == ExtractToken(cookie, header) IN
    IF ex.panic THEN Panic
    ELSE IF IsNone(ex.token) THEN Reject(ErrorUnauthorized("TokenNotProvided"))
    ELSE OnToken(Unwrap(ex.token))

\* The steps after the lookup end in "reject" (with the error response) or
\* "admit" (with the extensions as bound).
Admit(ext) == [kind |-> "admit", response |-> Panicked, ext |-> ext]
Deny(resp) == [kind |-> "reject", response |-> resp, ext |-> None]

\* An insert that stores nothing.
insert_nothing(ext, user) == ext

\* Line 160: Extensions::insert::<UserModel>(user).
insert(ext, user) == Some(user)

\* As RoleGate, with Admin admitted on every route.
RoleGate_adminAlways(user, allowed, ext) ==
    IF contains(allowed, user.role) \/ user.role = "Admin" THEN Admit(insert(ext, user))
    ELSE Deny(ErrorForbidden("PermissionDenied"))

\* Lines 159-169: the role check, the binding and the permission error.
RoleGate(user, allowed, ext) ==
    IF contains(allowed, user.role) THEN Admit(insert(ext, user))
    ELSE Deny(ErrorForbidden("PermissionDenied"))

\* As AfterLookup, with a missing account passed on to the handler.
AfterLookup_passesMissing(res, allowed, ext) ==
    IF ~res.ok THEN Deny(ErrorInternalServerError("db error"))
    ELSE IF IsNone(res.user) THEN Admit(ext)
    ELSE RoleGate(Unwrap(res.user), allowed, ext)

\* As AfterLookup, with a failed lookup read as no account.
AfterLookup_errorIsMissing(res, allowed, ext) ==
    IF ~res.ok \/ IsNone(res.user) THEN Deny(ErrorUnauthorized("UserNoLongerExist"))
    ELSE RoleGate(Unwrap(res.user), allowed, ext)

\* As AfterLookup, with at most one admission per process.
AfterLookup_onceOnly(res, allowed, ext) ==
    IF ~res.ok THEN Deny(ErrorInternalServerError("db error"))
    ELSE IF IsNone(res.user) THEN Deny(ErrorUnauthorized("UserNoLongerExist"))
    ELSE IF \E q \in Reqs : srvCalls[q] > 0 THEN Deny(ErrorForbidden("PermissionDenied"))
    ELSE RoleGate(Unwrap(res.user), allowed, ext)

\* Lines 151-169: what the future does with the lookup's result.
AfterLookup(res, allowed, ext) ==
    IF ~res.ok THEN Deny(ErrorInternalServerError("db error"))
    ELSE IF IsNone(res.user) THEN Deny(ErrorUnauthorized("UserNoLongerExist"))
    ELSE RoleGate(Unwrap(res.user), allowed, ext)

\* A lookup answered from the store as it was at start.
lookup_stale(store, id, fails) == get_user(InitialDb, id, fails)

\* A lookup that asks for the account of the first request in flight.
lookup_shared(store, id, fails) ==
    LET waiting == { q \in Reqs : pc[q] = "awaiting" }
        first == CHOOSE q \in waiting : \A p \in waiting : q <= p
    IN get_user(store, Unwrap(user_id[first]), fails)

\* Lines 148-150: a UserService over the shared database handle is asked for
\* the account, on every call.
lookup(store, id, fails) == get_user(store, id, fails)

\* Requests are numbered in their order of arrival.
Arrives(r) == pc[r] = "idle" /\ \A q \in Reqs : q < r => pc[q] # "idle"

\* A request with one of the given cookies and headers reaches a route
\* wrapped by RequireAuth: call() runs up to the first suspension point (the
\* awaited get_user).
CallWith(r, cookies, headers) ==
    /\ Arrives(r)
    /\ \E cookie \in {None} \cup {Some(c) : c \in cookies},
          header \in {None} \cup {Some(h) : h \in headers},
          route \in {x \in Routes : Gated(x)} :
         LET b == BeforeLookup(cookie, header) IN
         /\ req' = [req EXCEPT ![r] = [cookie |-> cookie, header |-> header, route |-> route]]
         /\ token' = [token EXCEPT ![r] = ExtractToken(cookie, header).token]
         /\ IF b.kind = "lookup"
            THEN /\ pc' = [pc EXCEPT ![r] = "awaiting"]
                 /\ user_id' = [user_id EXCEPT ![r] = Some(b.id)]
                 /\ lookups' = [lookups EXCEPT ![r] = @ + 1]
                 /\ UNCHANGED response
            ELSE /\ pc' = [pc EXCEPT ![r] = "done"]
                 /\ response' = [response EXCEPT ![r] = Some(b.response)]
                 /\ UNCHANGED <<user_id, lookups>>
    /\ UNCHANGED <<db, result, extensions, srvCalls, extracted, held>>

\* One request, any cookie and any header.
Call(r) == (\A q \in Reqs : r <= q) /\ CallWith(r, CookieValues, HeaderValues)

\* Any of the requests, with the core cookies and headers.
CallCore(r) == CallWith(r, CoreCookies, CoreHeaders)

\* The awaited get_user completes (the store is read now); the future runs
\* on to the role check and, when it admits, binds the record and calls the
\* wrapped service.
LookupReturn(r) ==
    /\ pc[r] = "awaiting"
    /\ \E fails \in BOOLEAN :
         LET res == lookup(db, Unwrap(user_id[r]), fails)
             a == AfterLookup(res, allowed_roles(req[r].route), extensions[r]) IN
         /\ result' = [result EXCEPT ![r] = Some(res)]
         /\ IF a.kind = "admit"
            THEN /\ extensions' = [extensions EXCEPT ![r] = a.ext]
                 /\ srvCalls' = [srvCalls EXCEPT ![r] = @ + 1]
                 /\ pc' = [pc EXCEPT ![r] = "handler"]
                 /\ UNCHANGED response
            ELSE /\ pc' = [pc EXCEPT ![r] = "done"]
                 /\ response' = [response EXCEPT ![r] = Some(a.response)]
                 /\ UNCHANGED <<extensions, srvCalls>>
    /\ UNCHANGED <<db, req, token, user_id, lookups, extracted, held>>

\* A request reaches a route registered without RequireAuth: the framework
\* calls the handler service directly.
CallUnwrappedWith(r, cookies) ==
    /\ Arrives(r)
    /\ \E cookie \in {None} \cup {Some(c) : c \in cookies},
          route \in {x \in Routes : ~Gated(x)} :
         req' = [req EXCEPT ![r] = [cookie |-> cookie, header |-> None, route |-> route]]
    /\ pc' = [pc EXCEPT ![r] = "handler"]
    /\ srvCalls' = [srvCalls EXCEPT ![r] = @ + 1]
    /\ UNCHANGED <<db, token, user_id, lookups, result, extensions, extracted, held,
                   response>>

CallUnwrapped(r) == (\A q \in Reqs : r <= q) /\ CallUnwrappedWith(r, CookieValues)

CallUnwrappedCore(r) == CallUnwrappedWith(r, CoreCookies)

\* The handler side asks for the authenticated identity.
Extract(r) ==
    /\ pc[r] = "handler"
    /\ Len(extracted[r]) < MaxExtract
    /\ LET got == from_request(extensions[r]) IN
         /\ extracted' = [extracted EXCEPT ![r] = Append(@, got)]
         /\ held' = [held EXCEPT ![r] = IF got.ok THEN Some(got.user) ELSE @]
    /\ UNCHANGED <<db, pc, req, token, user_id, lookups, result, extensions, srvCalls,
                   response>>

\* The wrapped service answers: an extraction error is the answer when the
\* accessor failed, otherwise whatever the handler returns.  `?` and Ok(res)
\* on lines 161-162 pass either on unchanged.
HandlerReturn(r) ==
    /\ pc[r] = "handler"
    /\ \E hr \in HandlerResponses :
         LET failed == { i \in 1..Len(extracted[r]) : ~extracted[r][i].ok } IN
         response' = [response EXCEPT ![r] =
             IF failed # {} THEN Some(extracted[r][CHOOSE i \in failed : TRUE].err)
             ELSE Some(hr)]
    /\ pc' = [pc EXCEPT ![r] = "done"]
    /\ UNCHANGED <<db, req, token, user_id, lookups, result, extensions, srvCalls,
                   extracted, held>>

\* A write to the handler's record that reaches the record in the extensions.
write_to_alias(ext, written) == Some(written)

\* Line 37: `.cloned()` hands the handler a record of its own, so a write to
\* it leaves the record in the extensions as it is.
write_to_copy(ext, written) == ext

\* The handler overwrites the role in the record it holds.
HandlerWrites(r) ==
    /\ pc[r] = "handler"
    /\ IsSome(held[r])
    /\ \E role \in Roles \ {Unwrap(held[r]).role} :
         LET written == UserModel(Unwrap(held[r]).id, role) IN
         /\ held' = [held EXCEPT ![r] = Some(written)]
         /\ extensions' = [extensions EXCEPT ![r] = write_to_copy(@, written)]
    /\ UNCHANGED <<db, pc, req, token, user_id, lookups, result, srvCalls, extracted,
                   response>>

\* ------------------------------------------------ the store's other users
DeleteUser(id) ==
    /\ IsSome(db[id])
    /\ db' = [db EXCEPT ![id] = None]
    /\ UNCHANGED <<pc, req, token, user_id, lookups, result, extensions, srvCalls,
                   extracted, held, response>>

SetRole(id, role) ==
    /\ IsSome(db[id])
    /\ Unwrap(db[id]).role # role
    /\ db' = [db EXCEPT ![id] = Some(UserModel(id, role))]
    /\ UNCHANGED <<pc, req, token, user_id, lookups, result, extensions, srvCalls,
                   extracted, held, response>>

\* One request with any input, against a store that changes under it.
Next ==
    \/ \E r \in Reqs : Call(r)
    \/ \E r \in Reqs : CallUnwrapped(r)
    \/ \E r \in Reqs : LookupReturn(r)
    \/ \E r \in Reqs : Extract(r)
    \/ \E r \in Reqs : HandlerWrites(r)
    \/ \E r \in Reqs : HandlerReturn(r)
    \/ \E id \in DOMAIN db : DeleteUser(id)
    \/ \E id \in DOMAIN db, role \in Roles : SetRole(id, role)

Spec == Init /\ [][Next]_vars

\* NumReqs requests with the core inputs, in flight together, against a
\* store that loses accounts under them.
NextConc ==
    \/ \E r \in Reqs : CallCore(r)
    \/ \E r \in Reqs : CallUnwrappedCore(r)
    \/ \E r \in Reqs : LookupReturn(r)
    \/ \E r \in Reqs : Extract(r)
    \/ \E r \in Reqs : HandlerReturn(r)
    \/ \E id \in DOMAIN db : DeleteUser(id)

SpecConc == Init /\ [][NextConc]_vars


\* ================================================================ properties
\* The outcomes of section 7 of the specification, as responses.
MissingCredential == Response(401, "TokenNotProvided")
InvalidOrExpiredToken == Response(401, "InvalidToken")
AccountNotFound == Response(401, "UserNoLongerExist")
PermissionDenied == Response(403, "PermissionDenied")

Answered(r, resp) == pc[r] = "done" /\ response[r] = Some(resp)

\* The request got one of the four authentication/authorization rejections.
Rejected(r) ==
    \E resp \in {MissingCredential, InvalidOrExpiredToken, AccountNotFound, PermissionDenied} :
        Answered(r, resp)

\* The request has arrived at a route wrapped by the middleware.
Wrapped(r) == pc[r] # "idle" /\ Gated(req[r].route)

\* The lookup of the request returned an account record.
Resolved(r) ==
    IsSome(result[r]) /\ Unwrap(result[r]).ok /\ IsSome(Unwrap(result[r]).user)
Account(r) == Unwrap(Unwrap(result[r]).user)

\* The roles a route lists, as a set.
RoleSet(list) == { list[i] : i \in 1..Len(list) }

\* The request passed the Role Gate: its resolved account's role is a member
\* of its route's allow-list.
PassedGate(r) ==
    /\ Wrapped(r)
    /\ Resolved(r)
    /\ Account(r).role \in RoleSet(allowed_roles(req[r].route))

\* The credential of a request as section 3 of the specification defines it:
\* the cookie's value, else the header after its 7-character prefix.
HasCredential(r) ==
    \/ IsSome(req[r].cookie)
    \/ IsSome(req[r].header) /\ Len(Unwrap(req[r].header)) >= PrefixLen
                             /\ to_str_ok(Unwrap(req[r].header))
Credential(r) ==
    IF IsSome(req[r].cookie) THEN Unwrap(req[r].cookie)
    ELSE SubSeq(Unwrap(req[r].header), PrefixLen + 1, Len(Unwrap(req[r].header)))

\* C1: in every reachable state, a request has an identity bound in its
\* extensions if and only if it passed the Role Gate (its resolved account's
\* role is in its route's allow-list); a request that was rejected, or that
\* has not reached the gate yet, has none.
C1_BoundIffPassedGate ==
    \A r \in Reqs :
        /\ IsSome(extensions[r]) <=> PassedGate(r)
        /\ pc[r] \in {"idle", "awaiting"} => IsNone(extensions[r])
        /\ Rejected(r) => IsNone(extensions[r])

C1_Witness ==
    \E r \in Reqs : PassedGate(r) /\ IsSome(extensions[r]) /\ pc[r] = "handler"

\* C2: on a wrapped route the handler is invoked only for a request that
\* passed the gate; a request answered with MissingCredential,
\* InvalidOrExpiredToken, AccountNotFound or PermissionDenied is finished with
\* that error response and its handler was never invoked.
C2_HandlerOnlyAfterAdmitted ==
    \A r \in Reqs :
        /\ Wrapped(r) /\ srvCalls[r] > 0 => PassedGate(r)
        /\ Wrapped(r) /\ Rejected(r) => srvCalls[r] = 0 /\ Len(extracted[r]) = 0

C2_Witness ==
    \E r \in Reqs : Wrapped(r) /\ Answered(r, AccountNotFound) /\ srvCalls[r] = 0

\* C3: a request whose valid token's subject resolved to an account with a
\* role in the route's allow-list is admitted (never answered by the
\* pipeline's own errors), its handler is invoked exactly once, and every
\* call of the accessor in that handler returns exactly the record the store
\* returned for the token's subject.
C3_AdmittedSeesItsAccount ==
    \A r \in Reqs :
        PassedGate(r) =>
            /\ pc[r] \in {"handler", "done"}
            /\ srvCalls[r] = 1
            /\ ~Rejected(r)
            /\ pc[r] = "done" => response[r] \in {Some(h) : h \in HandlerResponses}
            /\ Some(Account(r).id) = user_id[r]
            /\ parse_str(Account(r).id) = parse_str(decode_token(Credential(r)).sub)
            /\ \A i \in 1..Len(extracted[r]) :
                   extracted[r][i].ok /\ extracted[r][i].user = Account(r)

C3_Witness ==
    \E r \in Reqs :
        /\ PassedGate(r) /\ pc[r] = "done"
        /\ Len(extracted[r]) > 0 /\ extracted[r][1].user = Account(r)
        /\ Credential(r) = <<"U2", "ok">>

\* C4: a request whose token is valid and whose lookup returned an account is
\* answered 403 PermissionDenied exactly when the account's role is not in
\* the set of roles its route lists: no role outside the list is admitted
\* (no hierarchy, no wildcard), and only the set of listed roles matters, not
\* their order.
C4_DeniedIffRoleNotListed ==
    \A r \in Reqs :
        /\ Wrapped(r) /\ Resolved(r) =>
              (Answered(r, PermissionDenied) /\ srvCalls[r] = 0
                  <=> Account(r).role \notin RoleSet(allowed_roles(req[r].route)))
        /\ Answered(r, PermissionDenied) => Wrapped(r) /\ Resolved(r)
        /\ Wrapped(r) /\ srvCalls[r] > 0 =>
              Resolved(r) /\ Account(r).role \in {"Editor", "Viewer"}

C4_Witness ==
    \E r \in Reqs :
        /\ Wrapped(r) /\ Resolved(r) /\ Account(r).role = "Admin"
        /\ req[r].route = 2 /\ Answered(r, PermissionDenied)

\* C5: a request with neither a `token` cookie nor an Authorization header
\* is answered 401 MissingCredential, and the identity store is never called
\* for it.
C5_NoCredentialIsMissing ==
    \A r \in Reqs :
        Wrapped(r) /\ IsNone(req[r].cookie) /\ IsNone(req[r].header) =>
            /\ Answered(r, MissingCredential)
            /\ response[r][1].status = 401
            /\ lookups[r] = 0 /\ IsNone(result[r]) /\ srvCalls[r] = 0

C5_Witness ==
    \E r \in Reqs :
        /\ Wrapped(r) /\ IsNone(req[r].cookie) /\ IsNone(req[r].header)
        /\ Answered(r, MissingCredential) /\ lookups[r] = 0

\* The credential is a well-formed token whose signature does not verify or
\* which has expired.
FailsVerification(tok) == Len(tok) = 2 /\ tok[2] \in {"bad", "exp"}

\* C6: a request whose token fails signature or expiry verification is
\* answered 401 InvalidOrExpiredToken without the store being asked, whether
\* or not the token's subject has an account in the store.
C6_BadTokenIsInvalid ==
    \A r \in Reqs :
        Wrapped(r) /\ HasCredential(r) /\ FailsVerification(Credential(r)) =>
            /\ Answered(r, InvalidOrExpiredToken)
            /\ response[r][1].status = 401
            /\ lookups[r] = 0 /\ srvCalls[r] = 0

C6_Witness ==
    \E r \in Reqs :
        /\ Wrapped(r) /\ Answered(r, InvalidOrExpiredToken)
        /\ Credential(r) = <<"U2", "exp">>
        /\ IsNone(db["u2"]) /\ IsSome(db["u1"])


\* The awaited lookup of request r completes in this step.
LookupCompletes(r) == pc[r] = "awaiting" /\ pc'[r] # "awaiting"

\* The account the request's token names is not in the store.
AccountGone(r) == IsNone(db[Unwrap(user_id[r])])

\* C7 as stated: whenever the lookup of a request completes while the
\* account its valid token names is deleted, the request is answered
\* AccountNotFound.
C7_DeletedAccountAlwaysNotFound ==
    [][\A r \in Reqs :
          LookupCompletes(r) /\ AccountGone(r) => Answered(r, AccountNotFound)']_vars

\* C7, amended: the store is read when the lookup completes, never earlier
\* and never from a previous request: whenever the lookup of a request
\* completes while the account its valid token names is deleted, the request
\* is answered AccountNotFound, or with the 500 of a lookup that itself
\* failed; it is never admitted, whatever earlier requests with the same
\* token got.
C7_DeletedAccountNeverAdmitted ==
    [][\A r \in Reqs :
          LookupCompletes(r) /\ AccountGone(r) =>
              /\ pc'[r] = "done" /\ srvCalls'[r] = 0 /\ IsNone(extensions'[r])
              /\ \/ Answered(r, AccountNotFound)'
                 \/ /\ ~Unwrap(result'[r]).ok
                    /\ response'[r][1].status = 500]_vars

\* An earlier request was admitted and answered by its handler; a later one
\* with the same cookie, header and route found the account deleted.
C7_Witness ==
    \E r, q \in Reqs :
        /\ r < q /\ req[r] = req[q]
        /\ PassedGate(r) /\ pc[r] = "done"
        /\ Answered(q, AccountNotFound) /\ lookups[q] = 1

\* C8: a lookup that returns not-found is answered 401 AccountNotFound, a
\* lookup that fails is answered with a 500; in neither case is an identity
\* bound or the handler invoked.
C8_NotFoundVersusInfraFailure ==
    \A r \in Reqs :
        IsSome(result[r]) /\ ~Resolved(r) =>
            /\ pc[r] = "done" /\ IsNone(extensions[r]) /\ srvCalls[r] = 0
            /\ IF Unwrap(result[r]).ok
               THEN response[r] = Some(AccountNotFound) /\ response[r][1].status = 401
               ELSE response[r][1].status = 500

C8_Witness ==
    \E r \in Reqs :
        /\ IsSome(result[r]) /\ ~Unwrap(result[r]).ok
        /\ pc[r] = "done" /\ response[r][1].status = 500
        /\ IsSome(db[Unwrap(user_id[r])])

\* C9: every call of the accessor returns the identity bound in the request's
\* extensions when there is one, and fails with a 500 when there is none; a
\* request that reached its handler on a route without the middleware has
\* none, and the failed extraction is its response.
C9_AccessorReturnsBoundOr500 ==
    \A r \in Reqs :
        /\ \A i \in 1..Len(extracted[r]) :
              IF IsSome(extensions[r])
              THEN extracted[r][i].ok /\ extracted[r][i].user = Unwrap(extensions[r])
              ELSE ~extracted[r][i].ok /\ extracted[r][i].err.status = 500
        /\ pc[r] # "idle" /\ ~Gated(req[r].route) =>
              /\ IsNone(extensions[r])
              /\ pc[r] = "done" /\ Len(extracted[r]) > 0 =>
                     response[r][1].status = 500

C9_Witness ==
    \E r \in Reqs :
        /\ pc[r] = "done" /\ ~Gated(req[r].route)
        /\ Len(extracted[r]) > 0 /\ ~extracted[r][1].ok
        /\ response[r] = Some(Response(500, "Authentication Error"))

\* C10: a request with no cookie and an Authorization header shorter than
\* the 7-character prefix is answered with the authentication error
\* MissingCredential; the slicing of the header never faults.
C10_ShortHeaderIsMissingCredential ==
    \A r \in Reqs :
        /\ Wrapped(r) /\ IsNone(req[r].cookie) /\ IsSome(req[r].header)
        /\ Len(Unwrap(req[r].header)) < PrefixLen
        => response[r] # Some(Panicked) /\ Answered(r, MissingCredential)


\* C11: a request whose token verifies but whose subject is not a well-formed
\* UUID ends in the terminal failure MalformedSubject: it is answered with a
\* server error (HTTP 500), not with an authentication failure and not by a
\* crash, and its handler is not invoked.
C11_MalformedSubjectIs500 ==
    \A r \in Reqs :
        /\ Wrapped(r) /\ HasCredential(r)
        /\ decode_token(Credential(r)).ok
        /\ IsNone(parse_str(decode_token(Credential(r)).sub))
        => /\ pc[r] = "done" /\ srvCalls[r] = 0
           /\ response[r] # Some(Panicked)
           /\ response[r][1].status = 500

\* C12: the credential is the `token` cookie's value, verbatim, when the
\* cookie is present, whatever the header holds; everything after the first
\* 7 characters of the Authorization header when only the header is present;
\* and absent when both are absent.
C12_CookieFirstHeaderFallback ==
    \A r \in Reqs :
        Wrapped(r) =>
            token[r] =
                IF IsSome(req[r].cookie) THEN req[r].cookie
                ELSE IF IsSome(req[r].header)
                THEN Some(SubSeq(Unwrap(req[r].header), PrefixLen + 1,
                                 Len(Unwrap(req[r].header))))
                ELSE None

\* The part of C12 the code keeps: the same statement for every request
\* whose header, when it is the one read, has at least 7 characters, all of
\* them visible ASCII.
C12_OnSliceableHeaders ==
    \A r \in Reqs :
        Wrapped(r) /\ HasCredential(r) => token[r] = Some(Credential(r))

\* C13: under every interleaving of the requests, a request's binding is
\* written at most once, by that request's own lookup completing, and a step
\* that writes it writes no other request's binding; the identity a handler
\* obtains is always the account named by the subject of that same request's
\* credential.
C13_BindingIsPerRequest ==
    [][\A r \in Reqs :
          /\ IsSome(extensions[r]) => extensions'[r] = extensions[r]
          /\ extensions'[r] # extensions[r] =>
                /\ pc[r] = "awaiting"
                /\ \A q \in Reqs \ {r} : extensions'[q] = extensions[q]
          /\ \A i \in 1..Len(extracted'[r]) :
                Wrapped(r)' =>
                    /\ extracted'[r][i].ok
                    /\ parse_str(extracted'[r][i].user.id)
                         = parse_str(decode_token(Credential(r)').sub)]_vars

\* One request is suspended in its lookup for one account while a request
\* that arrived after it runs its handler with the other account.
C13_Witness ==
    \E r, q \in Reqs :
        /\ r < q /\ pc[r] = "awaiting" /\ user_id[r] = Some("u1")
        /\ pc[q] = "handler" /\ Len(extracted[q]) > 0
        /\ extracted[q][1].user.id = "u2" /\ extensions[q] = Some(extracted[q][1].user)

\* The pipeline has decided the request: it admitted it or answered it
\* itself, and not because the lookup failed.
Decided(r) ==
    /\ Wrapped(r) /\ pc[r] \in {"handler", "done"}
    /\ IsSome(result[r]) => Unwrap(result[r]).ok
Decision(r) ==
    [admitted |-> srvCalls[r] > 0,
     error |-> IF srvCalls[r] > 0 THEN None ELSE response[r]]

\* C14: two requests with the same cookie, header and route, decided against
\* an account state that has not changed (accounts are only ever deleted, so
\* the store still equal to its initial contents has never changed), get the
\* same decision: both admitted or both the same error response.
C14_SameRequestSameDecision ==
    \A r, q \in Reqs :
        /\ req[r] = req[q] /\ Decided(r) /\ Decided(q)
        /\ db = InitialDb
        => Decision(r) = Decision(q)

C14_Witness ==
    \E r, q \in Reqs :
        /\ r < q /\ req[r] = req[q] /\ db = InitialDb
        /\ pc[r] = "done" /\ pc[q] = "done"
        /\ srvCalls[r] = 1 /\ srvCalls[q] = 1
        /\ PassedGate(r) /\ PassedGate(q)

\* The three ways a credential fails verification.
Malformed(tok) == Len(tok) # 2
BadSignature(tok) == Len(tok) = 2 /\ tok[2] = "bad"
Expired(tok) == Len(tok) = 2 /\ tok[2] = "exp"

\* C15: whichever sub-check of the verification fails (malformed token, bad
\* signature, expired token), the request gets one and the same response,
\* status 401 with the one message InvalidToken, so two requests that differ
\* only in the failing sub-check get identical responses.
C15_FailuresIndistinguishable ==
    \A r \in Reqs :
        /\ Wrapped(r) /\ HasCredential(r)
        /\ \/ Malformed(Credential(r))
           \/ BadSignature(Credential(r))
           \/ Expired(Credential(r))
        => /\ pc[r] = "done"
           /\ response[r] = Some(Response(401, "InvalidToken"))

\* A header with a 6-character scheme loses the first part of its token to
\* the slice and is answered like any other failure.
C15_Witness ==
    \E r \in Reqs :
        /\ Wrapped(r) /\ IsNone(req[r].cookie) /\ HasCredential(r)
        /\ Credential(r) = <<"ok">> /\ Malformed(Credential(r))
        /\ Answered(r, Response(401, "InvalidToken"))

\* C16: while the handler runs, whatever it does (calling the accessor,
\* writing to the record it holds, answering) leaves the identity bound in
\* the extensions unchanged, and every call of the accessor returns that
\* bound identity.
C16_AccessorIsolatesTheRecord ==
    [][\A r \in Reqs :
          pc[r] = "handler" /\ IsSome(extensions[r]) =>
              /\ extensions'[r] = extensions[r]
              /\ \A i \in 1..Len(extracted'[r]) :
                     extracted'[r][i].user = Unwrap(extensions[r])]_vars

\* The handler has changed the record it holds; the bound one is as the
\* lookup returned it.
C16_Witness ==
    \E r \in Reqs :
        /\ Wrapped(r) /\ pc[r] = "done" /\ Len(extracted[r]) = MaxExtract
        /\ IsSome(held[r]) /\ held[r] # extensions[r]
        /\ extensions[r] = Some(Account(r))

\* The credential passes every sub-check of the verification.
Verifies(tok) == ~Malformed(tok) /\ ~BadSignature(tok) /\ ~Expired(tok)

\* C17: the stages of a request run in the order extractor, verifier,
\* resolver, role gate, binder, handler: the store is called only for a
\* credential that was extracted and verified, the role gate decides only on
\* an account the lookup returned, the handler is invoked only with the
\* identity bound, and the accessor runs only inside the handler.
C17_StagesInOrder ==
    \A r \in Reqs :
        Wrapped(r) =>
            /\ lookups[r] > 0 => HasCredential(r) /\ Verifies(Credential(r))
                                 /\ token[r] = Some(Credential(r))
            /\ IsSome(result[r]) => lookups[r] = 1
            /\ Answered(r, PermissionDenied) \/ IsSome(extensions[r]) => Resolved(r)
            /\ srvCalls[r] > 0 => IsSome(extensions[r])
            /\ Len(extracted[r]) > 0 => srvCalls[r] > 0

C17_Witness ==
    \E r \in Reqs :
        /\ Wrapped(r) /\ pc[r] = "done"
        /\ HasCredential(r) /\ Verifies(Credential(r))
        /\ lookups[r] = 1 /\ Resolved(r)
        /\ IsSome(extensions[r]) /\ srvCalls[r] = 1 /\ Len(extracted[r]) > 0
        /\ response[r] = Some(Response(200, "handler ok"))

\* C18: once a `token` cookie is present the header is never read: the
\* credential is the cookie's value, a request whose cookie fails
\* verification is answered InvalidOrExpiredToken whatever token its header
\* holds, and no header, however malformed, makes such a request fault.
C18_HeaderOnlyWhenCookieAbsent ==
    \A r \in Reqs :
        Wrapped(r) /\ IsSome(req[r].cookie) =>
            /\ token[r] = req[r].cookie
            /\ ~Verifies(Unwrap(req[r].cookie)) =>
                  /\ Answered(r, InvalidOrExpiredToken)
                  /\ lookups[r] = 0 /\ srvCalls[r] = 0
            /\ response[r] = Some(Panicked) =>
                  /\ Verifies(Unwrap(req[r].cookie))
                  /\ IsNone(parse_str(Unwrap(req[r].cookie)[1]))

C18_Witness ==
    \E r \in Reqs :
        /\ Wrapped(r)
        /\ req[r].cookie = Some(<<"u1", "bad">>)
        /\ req[r].header = Some(Bearer \o <<"U2", "ok">>)
        /\ IsSome(db["u2"])
        /\ Answered(r, InvalidOrExpiredToken) /\ lookups[r] = 0

\* C19: the store is called at most once per request, and the identity
\* bound is the record as that one lookup returned it: whatever happens to
\* the account in the store afterwards, the request stays admitted and every
\* call of the accessor returns the record of lookup time.
C19_BoundIdentityIsSnapshot ==
    \A r \in Reqs :
        /\ lookups[r] <= 1
        /\ IsSome(extensions[r]) =>
              /\ Resolved(r) /\ extensions[r] = Some(Account(r))
              /\ pc[r] \in {"handler", "done"} /\ ~Rejected(r)
              /\ \A i \in 1..Len(extracted[r]) :
                     extracted[r][i].ok /\ extracted[r][i].user = Account(r)

\* The account was admitted as Viewer; the store now says Admin, a role the
\* route does not list.
C19_Witness ==
    \E r \in Reqs :
        /\ PassedGate(r) /\ pc[r] = "done" /\ Len(extracted[r]) > 0
        /\ Account(r).role = "Viewer"
        /\ db[Account(r).id] = Some(UserModel(Account(r).id, "Admin"))
        /\ extracted[r][1].user = Account(r)
        /\ response[r] = Some(Response(200, "handler ok"))

\* C20: the handler of a request is invoked at most once, and a request
\* that has come to its end has exactly one outcome, which is a response:
\* the handler's, or one error response.
C20_EndsInOneResponse ==
    \A r \in Reqs :
        /\ srvCalls[r] <= 1
        /\ pc[r] = "done" =>
              /\ IsSome(response[r])
              /\ response[r][1].status \in {200, 401, 403, 422, 500}


\* The part of C20 the code keeps.  The lookup eventually returns and the
\* handler eventually completes:
SpecLive ==
    /\ Spec
    /\ \A r \in Reqs : WF_vars(LookupReturn(r)) /\ WF_vars(HandlerReturn(r))

\* then every request that has arrived comes to its end, with a response
\* unless it panicked.
C20_EveryRequestEnds ==
    \A r \in Reqs :
        pc[r] # "idle" ~>
            (pc[r] = "done" /\ IsSome(response[r])
               /\ (response[r] = Some(Panicked)
                     \/ response[r][1].status \in {200, 401, 403, 422, 500}))

=============================================================================
